---- MODULE Spec2Model ----
(***************************************************************************)
(* Drag-resize handlers of the calendar: TimeResize (time grid, day       *)
(* column) and WeekResize (month / week row).  Times are milliseconds     *)
(* counted from 00:00 of day 0; every day has 24 hours (no DST shift).    *)
(***************************************************************************)
EXTENDS Integers, Sequences, FiniteSets, TLC

\* ------------------------------------------------------------------ bounds
\* columns / calendar days are 0..MaxDay
MaxDay == 1
\* at most MaxSubs subscriptions per gesture event and handler object
MaxSubs == 2
\* the milestone view renders days 0..MaxRange
MaxRange == 2
\* a day holds at most MaxColl milestones
MaxColl == 4

\* ------------------------------------------------------------ date helpers
\* datetime.millisecondsFrom(type, value)
millisecondsFrom(type, value) ==
    IF type = "minutes" THEN value * 60 * 1000
    ELSE IF type = "hour" THEN value * 60 * 60 * 1000
    ELSE value * 1000

MILLISECONDS_PER_DAY == 24 * 60 * 60 * 1000

\* TZDate#addMinutes, TZDate#addMilliseconds, TZDate#addDate
addMinutes(t, m) == t + millisecondsFrom("minutes", m)
addMilliseconds(t, ms) == t + ms
addDate(t, d) == t + d * MILLISECONDS_PER_DAY

\* datetime.start(date): 00:00:00.000 of the date's calendar day
start(t) == t - (t % MILLISECONDS_PER_DAY)
\* datetime.end(date): 23:59:59.000 of the date's calendar day
end(t) == start(t) + millisecondsFrom("hour", 23) + millisecondsFrom("minutes", 59)
                   + millisecondsFrom("seconds", 59)

\* Time#getDate of the column view of day d: the day's midnight
getDate(relatedView) == relatedView * MILLISECONDS_PER_DAY

\* clock time h:m of day d
At(d, h, m) == d * MILLISECONDS_PER_DAY + millisecondsFrom("hour", h)
                                        + millisecondsFrom("minutes", m)

\* ------------------------------------------------------------- input sets
Days == 0 .. MaxDay

\* times of day used for schedule starts and ends
ScheduleClock == { <<0, 15>>, <<9, 0>>, <<10, 0>>, <<23, 30>>, <<23, 45>> }
ScheduleTimes == { At(d, c[1], c[2]) : d \in Days, c \in ScheduleClock }

\* schedules shown in the time grid: start before end, shorter than a day
TimeSchedules ==
    { s \in [start : ScheduleTimes, end : ScheduleTimes] :
        s.start < s.end /\ s.end - s.start < MILLISECONDS_PER_DAY }

\* grid slots (nearestGridTimeY) the time-slot mapper returns inside a column
SlotClock == { <<0, 0>>, <<0, 5>>, <<0, 45>>, <<20, 0>> }
Slots(view) == { At(view, c[1], c[2]) : c \in SlotClock }

\* identifier found on a schedule block; "gone" has no schedule in the collection
ScheduleIDs == {"s1"}
BlockIDs == ScheduleIDs \cup {"gone"}

\* pointer-down targets seen by the classifier: the schedule block spans
\* y = rectTop .. rectTop + rectHeight, the pointer is at clientY
Target(handle, timeDate, view, block, clientY) ==
    [ handle |-> handle,        \* has the time-resize-handle class
      timeDate |-> timeDate,    \* closest .time-date container: "none", "noindex", "ok"
      view |-> view,            \* view index in the container's class
      block |-> block,          \* id of the closest schedule block, or "none"
      rectTop |-> 100, rectHeight |-> 40, clientY |-> clientY ]

Targets ==
    { Target(TRUE, "ok", v, b, y) : v \in Days, b \in BlockIDs, y \in {120, 121} }
    \cup { Target(FALSE, "ok", 0, "s1", 121), Target(TRUE, "none", 0, "s1", 121),
           Target(TRUE, "noindex", 0, "s1", 121), Target(TRUE, "ok", 0, "none", 121) }

VARIABLES
    schedules,              \* baseController.schedules.items
    handlers,               \* dragHandler's subscriptions of this TimeResize
    _getScheduleDataFunc,   \* <<>> (null) or <<view>>
    _dragStart,             \* <<>> (null) or <<schedule data of dragStart>>
    fired,                  \* events emitted while handling the last gesture event
    seen,                   \* what a listener of each of these events finds on the emitter
    ran,                    \* handlers invoked by the last gesture event
    gesture,                \* the last gesture event: its type and time slot
    clicked,                \* a click was handled since the last accepted dragStart
    weekHandlers,           \* dragHandler's subscriptions of the WeekResize
    getScheduleData,        \* WeekResize: <<>> (null) or <<"getMousePosData">>
    _cache,                 \* WeekResize: <<>> (null) or <<cache object>>
    guide,                  \* WeekResizeGuide: <<>> (null) or <<"MonthGuide">>
    elements,               \* WeekResizeGuide: <<>> (null) or <<block id>>
    display,                \* style.display of the blocks of each block id
    thrown,                 \* the last gesture event ended in a TypeError
    viewName,               \* the view on screen: "week" (time grid) or "month"
    options,                \* Milestone: this.options
    milestone,              \* Milestone: the milestone part of the parent view model
    baseViewModel           \* Milestone: <<>> or <<what render() hands to the template>>

timeVars == <<handlers, _getScheduleDataFunc, _dragStart, clicked>>
weekVars == <<weekHandlers, getScheduleData, _cache, guide, elements, display, thrown>>
milestoneVars == <<options, milestone, baseViewModel>>
vars == <<schedules, viewName, fired, seen, ran, gesture, timeVars, weekVars, milestoneVars>>

\* ----------------------------------------------------------------- events
NoEvent ==
    [ name |-> "", schedule |-> "", changes |-> {}, start |-> -1, end |-> -1, date |-> -1,
      relatedView |-> -1, nearestGridTimeY |-> -1, nearestRange |-> <<>>,
      targetModelID |-> "" ]

\* common.getScheduleChanges(schedule, propNames, data): the changes object
\* holds the named (modified) fields
getScheduleChanges(schedule, propNames, data) == propNames

\* the schedule data the function returned by _retriveScheduleData(timeView)
\* builds for a pointer event
ScheduleData(view, slot, extend) ==
    [ relatedView |-> view, nearestGridTimeY |-> slot,
      targetModelID |-> extend, nearestRange |-> <<>> ]

DataEvent(name, d) ==
    [ NoEvent EXCEPT !.name = name, !.relatedView = d.relatedView,
                     !.nearestGridTimeY = d.nearestGridTimeY,
                     !.nearestRange = d.nearestRange,
                     !.targetModelID = d.targetModelID ]

\* ------------------------------------------------- CustomEvents on / off
\* dragHandler.on({drag: d, dragEnd: e, click: c}, this)
on(h, d, e, c) ==
    [ drag |-> Append(h.drag, d), dragEnd |-> Append(h.dragEnd, e),
      click |-> Append(h.click, c) ]

\* dragHandler.off({drag: d, dragEnd: e, click: c}, this): every match goes
off(h, d, e, c) ==
    [ drag |-> SelectSeq(h.drag, LAMBDA x : x # d),
      dragEnd |-> SelectSeq(h.dragEnd, LAMBDA x : x # e),
      click |-> SelectSeq(h.click, LAMBDA x : x # c) ]

NoHandlers == [ drag |-> <<>>, dragEnd |-> <<>>, click |-> <<>> ]

\* ------------------------------------------------------------- TimeResize
\* the handler object's mutable part, threaded through the handler calls
Self == [ handlers |-> handlers, func |-> _getScheduleDataFunc,
          dragStart |-> _dragStart, schedules |-> schedules,
          fired |-> <<>>, seen |-> <<>>, ran |-> <<>> ]

\* the emitter as a listener called by this.fire(...) finds it: the drag and
\* dragEnd handlers still subscribed, and whether the session fields are set
Snapshot(st) ==
    [ subscribed |-> { st.handlers.drag[i] : i \in 1 .. Len(st.handlers.drag) }
                     \cup { st.handlers.dragEnd[i] : i \in 1 .. Len(st.handlers.dragEnd) },
      session |-> IF "func" \in DOMAIN st
                  THEN st.func # <<>> /\ st.dragStart # <<>>
                  ELSE st.getScheduleData # <<>> /\ st.cache # <<>> ]

\* this.fire(name, data): listeners run synchronously, before the next
\* statement of the handler
Fire(st, ev) == [ st EXCEPT !.fired = Append(@, ev), !.seen = Append(@, Snapshot(st)) ]
Ran(st, name) == [ st EXCEPT !.ran = Append(@, name) ]

\* slip: a container whose class holds no view index is taken for view 0
checkExpectCondition_NoIndexCheck(target) ==
    IF ~target.handle THEN <<>>
    ELSE IF target.timeDate = "none" THEN <<>>
    ELSE <<target.view>>

\* checkExpectCondition(target): <<view>> or <<>> (false / undefined)
checkExpectCondition(target) ==
    IF ~target.handle THEN <<>>
    ELSE IF target.timeDate = "none" THEN <<>>
    ELSE IF target.timeDate = "noindex" THEN <<>>
    ELSE <<target.view>>

\* mouseStartY <= blockElementTopY + (blockElementBottomY - blockElementTopY) / 2
isDraggingTop(target) ==
    2 * target.clientY <= 2 * target.rectTop + ((target.rectTop + target.rectHeight) - target.rectTop)

\* new end of an end-edge resize: lines 271-289
\* slip: the end-of-day clamp is left out
EndDayClamp_Missing(newEnds, dateEnd) == newEnds

EndDayClamp(newEnds, dateEnd) ==
    IF newEnds > dateEnd THEN dateEnd ELSE newEnds

\* slip: the minimum-duration clamp is left out
EndMinDuration_Missing(newEnds, schedule) == newEnds

\* slip: the 30 minutes are measured from the schedule's end
EndMinDuration_FromEnd(newEnds, schedule) ==
    IF newEnds - schedule.end < millisecondsFrom("minutes", 30)
    THEN addMinutes(schedule.end, 30) ELSE newEnds

EndMinDuration(newEnds, schedule) ==
    IF newEnds - schedule.start < millisecondsFrom("minutes", 30)
    THEN addMinutes(schedule.start, 30) ELSE newEnds

EndNextDayClamp(newEnds, baseDate) ==
    IF newEnds > addDate(baseDate, 1)
    THEN addMinutes(addDate(baseDate, 1), -1) ELSE newEnds

\* slip: the 30-minute baseline is not subtracted
EndTimeDiff_NoBaseline(range) == range[2] - range[1]

EndTimeDiff(range) == (range[2] - range[1]) - millisecondsFrom("minutes", 30)

NewEnds(schedule, scheduleData) ==
    LET timeDiff == EndTimeDiff(scheduleData.nearestRange)
        baseDate == getDate(scheduleData.relatedView)
        dateEnd == end(baseDate)
    IN  EndNextDayClamp(
            EndMinDuration(
                EndDayClamp(addMilliseconds(schedule.end, timeDiff), dateEnd),
                schedule),
            baseDate)

\* slip: the new end is computed on the schedule's own end date, without
\* the new TZDate(...) copy
_updateSchedule_InPlace(st, scheduleData) ==
    LET modelID == scheduleData.targetModelID IN
    IF modelID \notin DOMAIN st.schedules THEN st
    ELSE LET schedule == st.schedules[modelID]
             newEnds == NewEnds(schedule, scheduleData)
         IN  Fire([ st EXCEPT !.schedules[modelID].end = newEnds ],
                  [ NoEvent EXCEPT !.name = "beforeUpdateSchedule",
                                   !.schedule = modelID,
                                   !.changes = getScheduleChanges(schedule, {"end"}, newEnds),
                                   !.start = schedule.start,
                                   !.end = newEnds ])

\* TimeResize.prototype._updateSchedule
_updateSchedule(st, scheduleData) ==
    LET modelID == scheduleData.targetModelID IN
    IF modelID \notin DOMAIN st.schedules THEN st
    ELSE LET schedule == st.schedules[modelID]
             newEnds == NewEnds(schedule, scheduleData)
         IN  Fire(st, [ NoEvent EXCEPT !.name = "beforeUpdateSchedule",
                                       !.schedule = modelID,
                                       !.changes = getScheduleChanges(schedule, {"end"}, newEnds),
                                       !.start = schedule.start,
                                       !.end = newEnds ])

\* new start of a start-edge resize: lines 335-353
TopDayClamp(newStarts, baseDate) ==
    IF newStarts < baseDate THEN baseDate ELSE newStarts

\* slip: the minimum-duration clamp is left out
TopMinDuration_Missing(newStarts, schedule) == newStarts

TopMinDuration(newStarts, schedule) ==
    IF schedule.end - newStarts < millisecondsFrom("minutes", 30)
    THEN addMinutes(schedule.end, -30) ELSE newStarts

\* slip: the second start-of-day clamp is dropped as redundant
TopDayClampAgain_Missing(newStarts, baseDate) == newStarts

TopDayClampAgain(newStarts, baseDate) ==
    IF newStarts < baseDate THEN baseDate ELSE newStarts

NewStarts(schedule, scheduleData) ==
    LET timeDiff == EndTimeDiff(scheduleData.nearestRange)
        baseDate == getDate(scheduleData.relatedView)
    IN  TopDayClampAgain(
            TopMinDuration(
                TopDayClamp(addMilliseconds(schedule.start, timeDiff), baseDate),
                schedule),
            baseDate)

\* slip: the body copied from _updateSchedule still names end
_updateScheduleTop_ChangesEnd(st, scheduleData) ==
    LET modelID == scheduleData.targetModelID IN
    IF modelID \notin DOMAIN st.schedules THEN st
    ELSE LET schedule == st.schedules[modelID]
             newStarts == NewStarts(schedule, scheduleData)
         IN  Fire(st, [ NoEvent EXCEPT !.name = "beforeUpdateSchedule",
                                       !.schedule = modelID,
                                       !.changes = getScheduleChanges(schedule, {"end"}, newStarts),
                                       !.start = newStarts,
                                       !.end = schedule.end ])

\* TimeResize.prototype._updateScheduleTop
_updateScheduleTop(st, scheduleData) ==
    LET modelID == scheduleData.targetModelID IN
    IF modelID \notin DOMAIN st.schedules THEN st
    ELSE LET schedule == st.schedules[modelID]
             newStarts == NewStarts(schedule, scheduleData)
         IN  Fire(st, [ NoEvent EXCEPT !.name = "beforeUpdateSchedule",
                                       !.schedule = modelID,
                                       !.changes = getScheduleChanges(schedule, {"start"}, newStarts),
                                       !.start = newStarts,
                                       !.end = schedule.end ])

\* TimeResize.prototype._onDragStart
_onDragStart(st0, target, slot) ==
    LET st == Ran(st0, "_onDragStart")
        timeView == checkExpectCondition(target)
    IN  IF timeView = <<>> \/ target.block = "none" THEN st
        ELSE LET scheduleData == ScheduleData(timeView[1], slot, target.block)
                 st1 == [ st EXCEPT !.func = timeView, !.dragStart = <<scheduleData>> ]
                 st2 == IF isDraggingTop(target)
                        THEN [ st1 EXCEPT !.handlers =
                                 on(@, "_onDragTop", "_onDragEndTop", "_onClick") ]
                        ELSE [ st1 EXCEPT !.handlers =
                                 on(@, "_onDrag", "_onDragEnd", "_onClick") ]
             IN  Fire(st2, DataEvent("timeResizeDragstart", scheduleData))

\* TimeResize.prototype._onDrag
_onDrag(st0, slot) ==
    LET st == Ran(st0, "_onDrag") IN
    IF st.func = <<>> \/ st.dragStart = <<>> THEN st
    ELSE Fire(st, DataEvent("timeResizeDrag",
                    ScheduleData(st.func[1], slot, st.dragStart[1].targetModelID)))

\* TimeResize.prototype._onDragTop
_onDragTop(st0, slot) ==
    LET st == Ran(st0, "_onDragTop") IN
    IF st.func = <<>> \/ st.dragStart = <<>> THEN st
    ELSE Fire(st, DataEvent("timeResizeDragTop",
                    ScheduleData(st.func[1], slot, st.dragStart[1].targetModelID)))

\* lines 398-410 / 456-468: the release data with its nearestRange; addMinutes
\* shifts nearestGridTimeY itself
ReleaseData(st, slot) ==
    [ ScheduleData(st.func[1], slot, st.dragStart[1].targetModelID)
        EXCEPT !.nearestGridTimeY = addMinutes(slot, 30),
               !.nearestRange = << st.dragStart[1].nearestGridTimeY, addMinutes(slot, 30) >> ]

\* TimeResize.prototype._onDragEnd
_onDragEnd(st0, slot) ==
    LET st == [ Ran(st0, "_onDragEnd") EXCEPT !.handlers =
                  off(@, "_onDrag", "_onDragEnd", "_onClick") ]
    IN  IF st.func = <<>> \/ st.dragStart = <<>> THEN st
        ELSE LET scheduleData == ReleaseData(st, slot)
                 st1 == _updateSchedule(st, scheduleData)
                 st2 == Fire(st1, DataEvent("timeResizeDragend", scheduleData))
             IN  [ st2 EXCEPT !.func = <<>>, !.dragStart = <<>> ]

\* TimeResize.prototype._onDragEndTop
_onDragEndTop(st0, slot) ==
    LET st == [ Ran(st0, "_onDragEndTop") EXCEPT !.handlers =
                  off(@, "_onDragTop", "_onDragEndTop", "_onClick") ]
    IN  IF st.func = <<>> \/ st.dragStart = <<>> THEN st
        ELSE LET scheduleData == ReleaseData(st, slot)
                 st1 == _updateScheduleTop(st, scheduleData)
                 st2 == Fire(st1, DataEvent("timeResizeDragend", scheduleData))
             IN  [ st2 EXCEPT !.func = <<>>, !.dragStart = <<>> ]

\* slip: the click handler leaves the subscriptions in place
_onClick_KeepsHandlers(st0) ==
    Fire(Ran(st0, "_onClick"), [ NoEvent EXCEPT !.name = "timeResizeClick" ])

\* TimeResize.prototype._onClick
_onClick(st0) ==
    LET st == Ran(st0, "_onClick")
        h1 == off(st.handlers, "_onDrag", "_onDragEnd", "_onClick")
        h2 == off(h1, "_onDragTop", "_onDragEndTop", "_onClick")
    IN  Fire([ st EXCEPT !.handlers = h2 ],
             [ NoEvent EXCEPT !.name = "timeResizeClick" ])

\* one subscribed handler called with the gesture event's data
Call(name, st, slot) ==
    CASE name = "_onDrag" -> _onDrag(st, slot)
      [] name = "_onDragTop" -> _onDragTop(st, slot)
      [] name = "_onDragEnd" -> _onDragEnd(st, slot)
      [] name = "_onDragEndTop" -> _onDragEndTop(st, slot)
      [] OTHER -> _onClick(st)

\* dragHandler.fire(eventName, data): walks the live handler list by index, so
\* a handler that unsubscribes during the walk shortens it
RECURSIVE Invoke(_, _, _, _)
Invoke(eventName, st, slot, index) ==
    IF index > Len(st.handlers[eventName]) THEN st
    ELSE Invoke(eventName, Call(st.handlers[eventName][index], st, slot), slot, index + 1)

\* ---------------------------------------------------------------- actions
Commit(st) ==
    /\ schedules' = st.schedules
    /\ handlers' = st.handlers
    /\ _getScheduleDataFunc' = st.func
    /\ _dragStart' = st.dragStart
    /\ fired' = st.fired
    /\ seen' = st.seen
    /\ ran' = st.ran
    /\ UNCHANGED milestoneVars

Accepted(target) == checkExpectCondition(target) # <<>> /\ target.block # "none"

\* a gesture event of the drag handler: dragStart carries the pointer-down
\* target, the other events carry none
NoTarget == Target(FALSE, "none", 0, "none", 0)
Gesture(type, slot) == [ type |-> type, slot |-> slot, target |-> NoTarget ]
GestureOn(type, slot, target) == [ type |-> type, slot |-> slot, target |-> target ]

\* a schedule has a block in the column of every day it overlaps
RenderedIn(target) ==
    target.block \in DOMAIN schedules =>
        /\ schedules[target.block].start < addDate(getDate(target.view), 1)
        /\ schedules[target.block].end > getDate(target.view)

\* a gesture event no handler reads the slot of is taken at one slot only
Unread(view, slot) == view = 0 /\ slot = At(0, 0, 0)

\* Milestone (constructor): the option defaults; nothing rendered yet
DefaultOptions ==
    [ renderStartDate |-> "", renderEndDate |-> "", minHeight |-> 40, lineHeight |-> 12 ]

NoMilestone ==
    /\ options = DefaultOptions
    /\ milestone = <<>>
    /\ baseViewModel = <<>>

InitHandlers ==
    /\ handlers = NoHandlers
    /\ _getScheduleDataFunc = <<>>
    /\ _dragStart = <<>>
    /\ fired = <<>>
    /\ seen = <<>>
    /\ ran = <<>>
    /\ gesture = Gesture("none", -1)
    /\ clicked = FALSE
    /\ weekHandlers = [ drag |-> <<>>, dragEnd |-> <<>> ]
    /\ getScheduleData = <<>>
    /\ _cache = <<>>
    /\ guide = <<>>
    /\ elements = <<>>
    /\ display = [ b \in BlockIDs |-> "" ]
    /\ thrown = FALSE

Init ==
    /\ schedules \in [ScheduleIDs -> TimeSchedules]
    /\ viewName = "week"
    /\ InitHandlers
    /\ NoMilestone

\* the gesture source emits dragStart
DragStart ==
    \E target \in Targets :
      \E slot \in Slots(target.view) :
        /\ Accepted(target) => Len(handlers.drag) < MaxSubs /\ RenderedIn(target)
        /\ ~Accepted(target) => Unread(target.view, slot)
        /\ Commit(_onDragStart(Self, target, slot))
        /\ gesture' = GestureOn("dragStart", slot, target)
        /\ clicked' = IF Accepted(target) THEN FALSE ELSE clicked
        /\ UNCHANGED <<viewName, weekVars>>

\* the gesture source emits drag
Drag ==
    \E view \in Days :
      \E slot \in Slots(view) :
        /\ _getScheduleDataFunc # <<>> => view = _getScheduleDataFunc[1]
        /\ handlers.drag = <<>> => Unread(view, slot)
        /\ Commit(Invoke("drag", Self, slot, 1))
        /\ gesture' = Gesture("drag", slot)
        /\ UNCHANGED <<viewName, clicked, weekVars>>

\* the gesture source emits dragEnd
DragEnd ==
    \E view \in Days :
      \E slot \in Slots(view) :
        /\ _getScheduleDataFunc # <<>> => view = _getScheduleDataFunc[1]
        /\ handlers.dragEnd = <<>> => Unread(view, slot)
        /\ Commit(Invoke("dragEnd", Self, slot, 1))
        /\ gesture' = Gesture("dragEnd", slot)
        /\ UNCHANGED <<viewName, clicked, weekVars>>

\* the gesture source emits click
Click ==
    /\ Commit(Invoke("click", Self, 0, 1))
    /\ gesture' = Gesture("click", -1)
    /\ clicked' = (clicked \/ handlers.click # <<>>)
    /\ UNCHANGED <<viewName, weekVars>>

Next == DragStart \/ Drag \/ DragEnd \/ Click

Spec == Init /\ [][Next]_vars

\* ------------------------------------------------------------- WeekResize
\* schedules of the month view: start before end
WeekClock == { <<0, 0>>, <<9, 0>>, <<10, 0>>, <<23, 30>> }
WeekTimes == { At(d, c[1], c[2]) : d \in Days, c \in WeekClock }
WeekSchedules ==
    { s \in [start : WeekTimes, end : WeekTimes] : s.start < s.end }

\* the date getMousePosData reports for the cell under the pointer: an
\* instant of the cell's day
CellDates == { start(getDate(d)) : d \in Days } \cup { end(getDate(d)) : d \in Days }

\* result of getMousePosData's function: <<>> (null) or <<[date]>>
MousePosData == {<<>>} \cup { << [ date |-> t ] >> : t \in CellDates }

\* pointer-down targets seen by WeekResize._onDragStart
WeekTarget(handle, block) ==
    [ handle |-> handle,    \* has the weekday-resize-handle class
      block |-> block ]     \* id of the closest schedule block, or "none"

WeekTargets ==
    { WeekTarget(TRUE, b) : b \in BlockIDs }
    \cup { WeekTarget(FALSE, "s1"), WeekTarget(TRUE, "none") }

WeekSelf ==
    [ handlers |-> weekHandlers, getScheduleData |-> getScheduleData,
      cache |-> _cache, guide |-> guide, elements |-> elements,
      display |-> display, schedules |-> schedules,
      fired |-> <<>>, seen |-> <<>>, ran |-> <<>>, thrown |-> FALSE ]

Throw(st) == [ st EXCEPT !.thrown = TRUE ]

\* WeekResizeGuide.prototype._hideScheduleBlocks
_hideScheduleBlocks(st, modelID) ==
    [ st EXCEPT !.elements = <<modelID>>, !.display[modelID] = "none" ]

\* WeekResizeGuide.prototype._showScheduleBlocks
_showScheduleBlocks(st) ==
    IF st.elements = <<>> THEN st
    ELSE [ st EXCEPT !.display[st.elements[1]] = "block" ]

\* WeekResizeGuide.prototype._onDragStart
Guide_onDragStart(st0, dragStartEvent) ==
    LET st == [ Ran(st0, "WeekResizeGuide._onDragStart") EXCEPT !.guide = <<"MonthGuide">> ]
    IN  IF dragStartEvent.schedule \notin DOMAIN st.schedules THEN Throw(st)
        ELSE _hideScheduleBlocks(st, dragStartEvent.schedule)

\* WeekResizeGuide.prototype._onDrag
Guide_onDrag(st0, dragEvent) ==
    LET st == Ran(st0, "WeekResizeGuide._onDrag")
    IN  IF st.guide = <<>> THEN Throw(st) ELSE st

\* WeekResizeGuide.prototype._onDragEnd
Guide_onDragEnd(st0) ==
    LET st == _showScheduleBlocks(Ran(st0, "WeekResizeGuide._onDragEnd"))
    IN  IF st.guide = <<>> THEN Throw(st)
        ELSE [ st EXCEPT !.elements = <<>>, !.guide = <<>> ]

\* WeekResize.prototype._updateSchedule
Week_updateSchedule(st, scheduleCache) ==
    LET newEnd == end(scheduleCache.end)
        schedule == st.schedules[scheduleCache.schedule]
    IN  Fire(st, [ NoEvent EXCEPT !.name = "beforeUpdateSchedule",
                                  !.schedule = scheduleCache.schedule,
                                  !.changes = getScheduleChanges(schedule, {"end"}, newEnd),
                                  !.start = schedule.start,
                                  !.end = newEnd ])

\* WeekResize.prototype._onDragStart
Week_onDragStart(st0, target, scheduleData) ==
    LET st == Ran(st0, "WeekResize._onDragStart") IN
    IF ~target.handle THEN st
    ELSE IF target.block = "none" THEN st
    ELSE LET st1 == [ st EXCEPT
                        !.handlers = [ drag |-> Append(@.drag, "_onDrag"),
                                       dragEnd |-> Append(@.dragEnd, "_onDragEnd") ],
                        !.getScheduleData = <<"getMousePosData">>,
                        !.cache = << [ schedule |-> target.block, target |-> target.block,
                                       start |-> scheduleData[1].date, end |-> -1 ] >> ]
             ev == [ NoEvent EXCEPT !.name = "WeekResizeDragstart",
                                    !.date = scheduleData[1].date,
                                    !.targetModelID = target.block,
                                    !.schedule = target.block ]
         IN  Guide_onDragStart(Fire(st1, ev), ev)

\* WeekResize.prototype._onDrag
Week_onDrag(st0, scheduleData) ==
    LET st == Ran(st0, "WeekResize._onDrag") IN
    IF st.getScheduleData = <<>> THEN st
    ELSE IF scheduleData = <<>> THEN st
    ELSE LET ev == [ NoEvent EXCEPT !.name = "WeekResizeDrag",
                                    !.date = scheduleData[1].date ]
         IN  Guide_onDrag(Fire(st, ev), ev)

\* slip: the release is applied whatever the candidate date
StartNotAfter_Always(startTime, endTime) == TRUE

\* slip: a candidate equal to the start is refused
StartNotAfter_Strict(startTime, endTime) == startTime < endTime

\* line 203: start <= cache.end
StartNotAfter(startTime, endTime) == startTime <= endTime

\* WeekResize.prototype._onDragEnd
Week_onDragEnd(st0, scheduleData) ==
    LET st == [ Ran(st0, "WeekResize._onDragEnd") EXCEPT
                  !.handlers = [ drag |-> SelectSeq(@.drag, LAMBDA x : x # "_onDrag"),
                                 dragEnd |-> SelectSeq(@.dragEnd, LAMBDA x : x # "_onDragEnd") ] ]
    IN  IF st.getScheduleData = <<>> THEN st
        ELSE IF scheduleData # <<>> /\ st.cache[1].schedule \notin DOMAIN st.schedules
        THEN Throw(st)
        ELSE LET cache == IF scheduleData = <<>> THEN st.cache[1]
                          ELSE [ st.cache[1] EXCEPT !.end = scheduleData[1].date ]
                 st1 == IF scheduleData # <<>>
                           /\ StartNotAfter(st.schedules[cache.schedule].start, cache.end)
                        THEN Week_updateSchedule(st, cache) ELSE st
                 ev == [ NoEvent EXCEPT !.name = "WeekResizeDragend",
                                        !.date = IF scheduleData = <<>> THEN -1
                                                 ELSE scheduleData[1].date ]
                 st2 == Guide_onDragEnd(Fire(st1, ev))
             IN  IF st2.thrown THEN st2
                 ELSE [ st2 EXCEPT !.getScheduleData = <<>>, !.cache = <<>> ]

WeekCall(name, st, scheduleData) ==
    IF name = "_onDrag" THEN Week_onDrag(st, scheduleData)
    ELSE Week_onDragEnd(st, scheduleData)

\* dragHandler.fire(eventName, data) for the WeekResize subscriptions; a
\* TypeError ends the walk
RECURSIVE WeekInvoke(_, _, _, _)
WeekInvoke(eventName, st, scheduleData, index) ==
    IF st.thrown \/ index > Len(st.handlers[eventName]) THEN st
    ELSE WeekInvoke(eventName,
                    WeekCall(st.handlers[eventName][index], st, scheduleData),
                    scheduleData, index + 1)

WeekCommit(st) ==
    /\ schedules' = st.schedules
    /\ weekHandlers' = st.handlers
    /\ getScheduleData' = st.getScheduleData
    /\ _cache' = st.cache
    /\ guide' = st.guide
    /\ elements' = st.elements
    /\ display' = st.display
    /\ thrown' = st.thrown
    /\ fired' = st.fired
    /\ seen' = st.seen
    /\ ran' = st.ran
    /\ UNCHANGED milestoneVars

DateOf(scheduleData) == IF scheduleData = <<>> THEN -1 ELSE scheduleData[1].date

InitWeek ==
    /\ schedules \in [ScheduleIDs -> WeekSchedules]
    /\ viewName = "month"
    /\ InitHandlers
    /\ NoMilestone

\* the gesture source emits dragStart in the month view
WeekDragStart ==
    \E target \in WeekTargets :
      \E scheduleData \in MousePosData \ {<<>>} :
        /\ (target.handle /\ target.block # "none") => Len(weekHandlers.drag) < MaxSubs
        /\ WeekCommit(Week_onDragStart(WeekSelf, target, scheduleData))
        /\ gesture' = GestureOn("dragStart", DateOf(scheduleData),
                                 Target(target.handle, "ok", 0, target.block, 0))
        /\ UNCHANGED <<viewName, timeVars>>

\* the gesture source emits drag in the month view
WeekDrag ==
    \E scheduleData \in MousePosData :
        /\ WeekCommit(WeekInvoke("drag", WeekSelf, scheduleData, 1))
        /\ gesture' = Gesture("drag", DateOf(scheduleData))
        /\ UNCHANGED <<viewName, timeVars>>

\* the gesture source emits dragEnd in the month view
WeekDragEnd ==
    \E scheduleData \in MousePosData :
        /\ WeekCommit(WeekInvoke("dragEnd", WeekSelf, scheduleData, 1))
        /\ gesture' = Gesture("dragEnd", DateOf(scheduleData))
        /\ UNCHANGED <<viewName, timeVars>>

\* the gesture source emits click in the month view: WeekResize has no
\* click subscription
WeekClick ==
    /\ WeekCommit([ WeekSelf EXCEPT !.thrown = FALSE ])
    /\ gesture' = Gesture("click", -1)
    /\ UNCHANGED <<viewName, timeVars>>

NextWeek == WeekDragStart \/ WeekDrag \/ WeekDragEnd \/ WeekClick

SpecWeek == InitWeek /\ [][NextWeek]_vars

\* ------------------------------------------------------------- both views
\* the calendar shows one view at a time; changing the view destroys the
\* handlers of the old view (destroy: dragHandler.off(this), fields null)
\* and constructs those of the new one over a fresh rendering
ChangeView ==
    /\ viewName' = IF viewName = "week" THEN "month" ELSE "week"
    /\ handlers' = NoHandlers
    /\ _getScheduleDataFunc' = <<>>
    /\ _dragStart' = <<>>
    /\ clicked' = FALSE
    /\ weekHandlers' = [ drag |-> <<>>, dragEnd |-> <<>> ]
    /\ getScheduleData' = <<>>
    /\ _cache' = <<>>
    /\ guide' = <<>>
    /\ elements' = <<>>
    /\ display' = [ b \in BlockIDs |-> "" ]
    /\ thrown' = FALSE
    /\ fired' = <<>>
    /\ seen' = <<>>
    /\ ran' = <<>>
    /\ UNCHANGED milestoneVars
    /\ gesture' = Gesture("none", -1)
    /\ UNCHANGED schedules

InitBoth ==
    /\ schedules \in [ScheduleIDs -> TimeSchedules]
    /\ viewName \in {"week", "month"}
    /\ InitHandlers
    /\ NoMilestone

TimeGridNext == viewName = "week" /\ Next
MonthNext == viewName = "month" /\ NextWeek

NextBoth == TimeGridNext \/ MonthNext \/ ChangeView

SpecBoth == InitBoth /\ [][NextBoth]_vars

\* -------------------------------------------------------------- Milestone
PADDING == 4

\* the YYYY-MM-DD strings of days 0, 1, 2, ...
DateKeys == << "2015-05-01", "2015-05-02", "2015-05-03", "2015-05-04", "2015-05-05" >>

\* datetime.parse(str): the local midnight of the day the string names
parse(str) ==
    LET d == CHOOSE i \in 1 .. Len(DateKeys) : DateKeys[i] = str
    IN  At(d - 1, 0, 0)

\* datetime.format(date, 'YYYY-MM-DD')
format(t) == DateKeys[(t \div MILLISECONDS_PER_DAY) + 1]

\* datetime.range(start, end, step): start, start + step, ... up to end
RECURSIVE range(_, _, _)
range(startTime, endTime, step) ==
    IF startTime > endTime THEN <<>>
    ELSE <<startTime>> \o range(startTime + step, endTime, step)

\* JavaScript numbers: a finite value, NaN or -Infinity
Finite(n) == [ kind |-> "finite", n |-> n ]
NaN == [ kind |-> "NaN", n |-> 0 ]
NegInfinity == [ kind |-> "-Infinity", n |-> 0 ]

\* Math.max(a, b)
MathMax(a, b) ==
    IF a = NaN \/ b = NaN THEN NaN
    ELSE IF a = NegInfinity THEN b
    ELSE IF b = NegInfinity THEN a
    ELSE Finite(IF a.n >= b.n THEN a.n ELSE b.n)

\* a * n and a + n for a positive finite n
Times(a, n) == IF a.kind = "finite" THEN Finite(a.n * n) ELSE a
Plus(a, n) == IF a.kind = "finite" THEN Finite(a.n + n) ELSE a

\* an object as util.map's callback reads it: <<>> is a missing length
\* property (undefined), <<n>> a length of n
EmptyObject == [ length |-> <<>> ]
Collection(n) == [ length |-> <<n>> ]

\* coll.length as an argument of Math.max: undefined converts to NaN
ToNumber(length) == IF length = <<>> THEN NaN ELSE Finite(length[1])

\* util.extend(target, source); an undefined source adds nothing
extend(target, source) ==
    IF source = <<>> THEN target
    ELSE [ k \in DOMAIN target \cup DOMAIN source[1] |->
             IF k \in DOMAIN source[1] THEN source[1][k] ELSE target[k] ]

\* Math.max.apply(null, util.map(events, coll => coll.length)); Math.max of
\* no arguments is -Infinity
RECURSIVE MaxLength(_, _)
MaxLength(events, keys) ==
    IF keys = {} THEN NegInfinity
    ELSE LET k == CHOOSE x \in keys : TRUE
         IN  MathMax(ToNumber(events[k].length), MaxLength(events, keys \ {k}))

\* the dates of the render range
RenderRange(opts) ==
    range(start(parse(opts.renderStartDate)), end(parse(opts.renderEndDate)),
          MILLISECONDS_PER_DAY)

\* Milestone.prototype._getBaseViewModel
_getBaseViewModel(opts, viewModel) ==
    LET dates == RenderRange(opts)
        blank == [ k \in { format(dates[i]) : i \in 1 .. Len(dates) } |-> EmptyObject ]
        events == extend(blank, viewModel)
        height == Times(MaxLength(events, DOMAIN events), opts.lineHeight)
    IN  [ events |-> events,
          width |-> << 100, Len(dates) >>,      \* the quotient 100 / range.length
          minHeight |-> opts.minHeight,
          height |-> Plus(MathMax(Finite(opts.minHeight), height), PADDING),
          lineHeight |-> opts.lineHeight ]

\* options a Milestone view is constructed with
RenderDates == { DateKeys[d + 1] : d \in 0 .. MaxRange }
MilestoneOptions ==
    [ renderStartDate : RenderDates, renderEndDate : RenderDates,
      minHeight : {0, 40}, lineHeight : {12} ]

\* the milestone collections of the parent view model: undefined, or one
\* collection for some of the dates of the render range
RangeKeys(opts) ==
    { format(RenderRange(opts)[i]) : i \in 1 .. Len(RenderRange(opts)) }
Collections == { Collection(n) : n \in {0, 1, MaxColl} }
ViewModels(opts) ==
    { <<>> } \cup { <<m>> : m \in UNION { [K -> Collections] : K \in SUBSET RangeKeys(opts) } }

InitMilestone ==
    /\ schedules = [ id \in ScheduleIDs |-> [ start |-> At(0, 9, 0), end |-> At(0, 10, 0) ] ]
    /\ viewName = "week"
    /\ InitHandlers
    /\ options \in MilestoneOptions
    /\ milestone \in ViewModels(options)
    /\ baseViewModel = <<>>

\* Milestone.prototype.render(viewModel)
Render ==
    /\ baseViewModel' = << _getBaseViewModel(options, milestone) >>
    /\ UNCHANGED <<schedules, viewName, fired, seen, ran, gesture, timeVars, weekVars,
                   options, milestone>>

NextMilestone == Render

SpecMilestone == InitMilestone /\ [][NextMilestone]_vars

\* ------------------------------------------------------------ properties
HalfHour == 30 * 60 * 1000

IsUpdate(ev) == ev.name = "beforeUpdateSchedule"
Count(name) == Len(SelectSeq(fired, LAMBDA ev : ev.name = name))

\* the last gesture event was a dragEnd that released an end-edge session
\* of an existing schedule: fired = <<beforeUpdateSchedule, timeResizeDragend>>
EndEdgeReleased ==
    /\ ran = <<"_onDragEnd">>
    /\ Len(fired) = 2
    /\ IsUpdate(fired[1])
    /\ fired[2].name = "timeResizeDragend"

\* ... a start-edge session
StartEdgeReleased ==
    /\ ran = <<"_onDragEndTop">>
    /\ Len(fired) = 2
    /\ IsUpdate(fired[1])
    /\ fired[2].name = "timeResizeDragend"

\* of the released session: its schedule, the midnight that starts its
\* column's day, the last instant of that day, and the drag displacement
\* (slot at release minus slot recorded at dragStart)
RSchedule == schedules[fired[1].schedule]
RDayStart == fired[2].relatedView * MILLISECONDS_PER_DAY
RDayEnd == RDayStart + MILLISECONDS_PER_DAY - 1000
RDisplacement == gesture.slot - fired[2].nearestRange[1]

C2_StartKeepsMinDurationAlways ==
    StartEdgeReleased => RSchedule.end - fired[1].start >= HalfHour

\* C2 amended: a start-edge release of a schedule that ends at least 30
\* minutes after the start of the column's day emits a start at least 30
\* minutes before the schedule's end
C2_StartKeepsMinDuration ==
    (StartEdgeReleased /\ RSchedule.end >= RDayStart + HalfHour)
        => RSchedule.end - fired[1].start >= HalfHour

\* the drag would have left less than 30 minutes and the start was lowered
C2_Witness ==
    /\ StartEdgeReleased
    /\ RSchedule.end >= RDayStart + HalfHour
    /\ RSchedule.end - (RSchedule.start + RDisplacement) < HalfHour
    /\ fired[1].start = RSchedule.end - HalfHour

\* C3: the end emitted by an end-edge release is never later than the last
\* instant of the column's day (it does not reach the following midnight)
C3_EndWithinDay ==
    EndEdgeReleased => fired[1].end <= RDayEnd

\* C4: the start emitted by a start-edge release is never earlier than the
\* start of the column's day
C4_StartWithinDay ==
    StartEdgeReleased => fired[1].start >= RDayStart

\* the minimum-duration clamp pointed before the day and the start was
\* brought back to the day's start
C4_Witness ==
    /\ StartEdgeReleased
    /\ RSchedule.end - HalfHour < RDayStart
    /\ fired[1].start = RDayStart

\* C5: a handled click emits exactly one timeResizeClick and nothing else,
\* and from then until the next accepted dragStart no gesture event makes
\* TimeResize emit beforeUpdateSchedule
C5_ClickCancels ==
    /\ (gesture.type = "click" /\ ran # <<>>)
            => (fired = << [ NoEvent EXCEPT !.name = "timeResizeClick" ] >>)
    /\ clicked => Count("beforeUpdateSchedule") = 0

\* a dragEnd arrived after the click of an accepted session
C5_Witness ==
    /\ clicked
    /\ gesture.type = "dragEnd"
    /\ _dragStart # <<>>
    /\ fired = <<>>

\* the scenario of C8 and C9: the schedule runs from 09:00 to 10:00 of the
\* column's day
NineToTen ==
    /\ RSchedule.start = RDayStart + 9 * 2 * HalfHour
    /\ RSchedule.end = RDayStart + 10 * 2 * HalfHour

FiveMinutes == 5 * 60 * 1000

\* C8 as claimed: the 09:00-10:00 schedule dragged down by 5 minutes gets
\* the end 10:30
C8_SmallDragRaisedToFloor ==
    (EndEdgeReleased /\ NineToTen /\ RDisplacement = FiveMinutes)
        => fired[1].end = RSchedule.end + HalfHour

\* C8 amended: the 30-minute floor is on the duration, so a downward drag
\* of less than 30 minutes of a schedule that lasts at least 30 minutes is
\* applied as it is while it stays inside the column's day; the 09:00-10:00
\* schedule dragged down by 5 minutes gets the end 10:05
C8_SmallDragApplied ==
    (/\ EndEdgeReleased
     /\ RDisplacement >= 0 /\ RDisplacement < HalfHour
     /\ RSchedule.end - RSchedule.start >= HalfHour
     /\ RSchedule.end + RDisplacement <= RDayEnd)
        => fired[1].end = RSchedule.end + RDisplacement

C8_Witness ==
    /\ EndEdgeReleased
    /\ NineToTen
    /\ RDisplacement = FiveMinutes
    /\ fired[1].end = RDayStart + 10 * 2 * HalfHour + FiveMinutes

\* no clamp of _updateSchedule applies to the dragged end
NoClampApplies ==
    /\ RSchedule.end + RDisplacement <= RDayEnd
    /\ (RSchedule.end + RDisplacement) - RSchedule.start >= HalfHour

\* C9: when no clamp applies, the emitted end is the schedule's end plus
\* the slot at release minus the slot recorded at dragStart
C9_EndFollowsDisplacement ==
    (EndEdgeReleased /\ NoClampApplies)
        => fired[1].end = RSchedule.end + RDisplacement

\* 09:00-10:00 dragged down by 45 minutes ends at 10:45
C9_Witness ==
    /\ EndEdgeReleased
    /\ NineToTen
    /\ RDisplacement = HalfHour + HalfHour \div 2
    /\ fired[1].end = RDayStart + 10 * 2 * HalfHour + HalfHour + HalfHour \div 2

\* C10: when the dragged end lies beyond the end of the column's day and
\* the schedule starts at least 30 minutes before that end, the emitted
\* end is the last instant of the column's day
C10_EndClampsToDayEnd ==
    (/\ EndEdgeReleased
     /\ RSchedule.end + RDisplacement > RDayEnd
     /\ RSchedule.start + HalfHour <= RDayEnd)
        => fired[1].end = RDayEnd

\* 09:00-10:00 dragged down by 20 hours
C10_Witness ==
    /\ EndEdgeReleased
    /\ NineToTen
    /\ RDisplacement = 40 * HalfHour
    /\ fired[1].end = RDayEnd

\* the last gesture event was a dragEnd that released a month session of an
\* existing schedule with a candidate date under the pointer
WeekReleased ==
    /\ gesture.type = "dragEnd"
    /\ gesture.slot # -1
    /\ ran # <<>>
    /\ ran[1] = "WeekResize._onDragEnd"
    /\ ~thrown
    /\ fired # <<>>

\* the schedule the released month session resized
WSchedule == schedules["s1"]

\* C6: a month release whose candidate date is earlier than the schedule's
\* start emits no beforeUpdateSchedule; it emits WeekResizeDragend and
\* clears the session
C6_EarlierCandidateDiscarded ==
    (WeekReleased /\ gesture.slot < WSchedule.start)
        => /\ Count("beforeUpdateSchedule") = 0
           /\ Count("WeekResizeDragend") = 1
           /\ getScheduleData = <<>> /\ _cache = <<>>

C6_Witness ==
    /\ WeekReleased
    /\ gesture.slot < WSchedule.start
    /\ Count("WeekResizeDragend") = 1

C12_SchedulesReadOnly == [][schedules' = schedules]_vars

\* an end-edge release asked for a new end and the schedule kept its own
C12_Witness ==
    /\ EndEdgeReleased
    /\ fired[1].end # RSchedule.end
    /\ fired[1].end # schedules[fired[1].schedule].end

\* C13: the drag, dragEnd and click handlers are subscribed at most once
\* per handler object, a drag event yields at most one preview event and a
\* dragEnd at most one beforeUpdateSchedule and one *Dragend event
C13_SingleSession ==
    /\ Len(handlers.drag) <= 1
    /\ Len(handlers.dragEnd) <= 1
    /\ Len(handlers.click) <= 1
    /\ Len(weekHandlers.drag) <= 1
    /\ Len(weekHandlers.dragEnd) <= 1
    /\ gesture.type = "drag" => Len(fired) <= 1
    /\ gesture.type = "dragEnd" =>
          /\ Count("beforeUpdateSchedule") <= 1
          /\ Count("timeResizeDragend") + Count("WeekResizeDragend") <= 1

\* C14: while the session's block id has no schedule in the collection,
\* no handler throws and no event is emitted
C14_MissingScheduleSilent ==
    LET missingTime == /\ _dragStart # <<>>
                       /\ _dragStart[1].targetModelID \notin DOMAIN schedules
        missingWeek == /\ _cache # <<>>
                       /\ _cache[1].schedule \notin DOMAIN schedules
    IN  (ran # <<>> /\ (missingTime \/ missingWeek)) => (~thrown /\ fired = <<>>)

\* C15: after _onClick the session fields of TimeResize are null
C15_ClickDestroysSession ==
    (gesture.type = "click" /\ ran # <<>>)
        => (_dragStart = <<>> /\ _getScheduleDataFunc = <<>>)

\* C16: after a click in the month view WeekResize has no subscription and
\* no session fields, and the click emitted no beforeUpdateSchedule
C16_WeekClickCancels ==
    (gesture.type = "click" /\ viewName = "month")
        => /\ weekHandlers = [ drag |-> <<>>, dragEnd |-> <<>> ]
           /\ getScheduleData = <<>>
           /\ _cache = <<>>
           /\ Count("beforeUpdateSchedule") = 0

\* C17: a drag event during a time-grid session emits exactly one preview
\* event, the one of the session's edge, and leaves the session fields and
\* the subscriptions as they were
C17_DragEmitsOnePreview ==
    [][ (/\ gesture'.type = "drag"
         /\ handlers.drag # <<>>
         /\ _dragStart # <<>> /\ _getScheduleDataFunc # <<>>)
        => /\ Len(fired') = 1
           /\ fired'[1].name = (IF handlers.drag[1] = "_onDragTop"
                                 THEN "timeResizeDragTop" ELSE "timeResizeDrag")
           /\ UNCHANGED <<_dragStart, _getScheduleDataFunc, handlers>> ]_vars

\* C18: after a dragEnd that reached a dragEnd handler the session fields
\* are null and no drag, dragEnd or click handler is subscribed
C18_ReleaseReturnsToIdle ==
    (gesture.type = "dragEnd" /\ ran # <<>>)
        => /\ _dragStart = <<>> /\ _getScheduleDataFunc = <<>>
           /\ handlers = NoHandlers
           /\ getScheduleData = <<>> /\ _cache = <<>>
           /\ weekHandlers = [ drag |-> <<>>, dragEnd |-> <<>> ]

\* the classifier of either view rejects the pointer-down target
Rejected(t) == ~t.handle \/ t.timeDate # "ok" \/ t.block = "none"

\* the handler object of the view on screen has no session
NoSession ==
    IF viewName = "week" THEN _dragStart = <<>> \/ _getScheduleDataFunc = <<>>
    ELSE getScheduleData = <<>>

\* C19: a dragStart on a rejected target emits nothing, subscribes nothing
\* and leaves the session fields alone; a drag or dragEnd event that meets
\* no session emits nothing
C19_RejectedStartsNothing ==
    [][ /\ (gesture'.type = "dragStart" /\ Rejected(gesture'.target))
            => /\ fired' = <<>>
               /\ UNCHANGED <<handlers, _dragStart, _getScheduleDataFunc,
                               weekHandlers, getScheduleData, _cache>>
        /\ (gesture'.type \in {"drag", "dragEnd"} /\ NoSession)
            => fired' = <<>> ]_vars

\* a rejected dragStart arrived during a session and the session went on
C19_Witness ==
    /\ gesture.type = "dragStart"
    /\ Rejected(gesture.target)
    /\ _dragStart # <<>>
    /\ handlers.drag # <<>>
    /\ fired = <<>>

\* C20: an accepted dragStart at or above the block's vertical midpoint
\* subscribes the start-edge handlers, one below it the end-edge handlers,
\* and the subscribed handlers are always those of one edge only
C20_OneEdgePerSession ==
    /\ \A i \in 1 .. Len(handlers.drag) : handlers.drag[i] = handlers.drag[1]
    /\ \A i \in 1 .. Len(handlers.dragEnd) : handlers.dragEnd[i] = handlers.dragEnd[1]
    /\ (gesture.type = "dragStart" /\ viewName = "week" /\ ~Rejected(gesture.target))
          => LET t == gesture.target
                 atOrAbove == 2 * t.clientY <= 2 * t.rectTop + t.rectHeight
             IN  /\ handlers.drag # <<>>
                 /\ handlers.drag[Len(handlers.drag)] =
                        (IF atOrAbove THEN "_onDragTop" ELSE "_onDrag")
                 /\ handlers.dragEnd[Len(handlers.dragEnd)] =
                        (IF atOrAbove THEN "_onDragEndTop" ELSE "_onDragEnd")

\* a dragEnd handler is subscribed and the session fields it reads are set
ActiveSession ==
    IF viewName = "week"
    THEN handlers.dragEnd # <<>> /\ _dragStart # <<>> /\ _getScheduleDataFunc # <<>>
    ELSE weekHandlers.dragEnd # <<>> /\ getScheduleData # <<>> /\ _cache # <<>>

\* the drag and dragEnd handlers the first dragEnd handler to run removes
OwnHandlers ==
    IF viewName = "week" /\ handlers.dragEnd[1] = "_onDragEndTop"
    THEN {"_onDragTop", "_onDragEndTop"}
    ELSE {"_onDrag", "_onDragEnd"}

\* C21: a dragEnd that meets an active session emits at most one
\* beforeUpdateSchedule and then exactly one *Dragend event, every listener
\* of these events finds the handlers already unsubscribed and the session
\* fields still set, and the fields are null when the handler has returned
C21_ReleaseOrdered ==
    [][ (gesture'.type = "dragEnd" /\ ActiveSession)
        => /\ Len(fired') \in {1, 2}
           /\ fired'[Len(fired')].name \in {"timeResizeDragend", "WeekResizeDragend"}
           /\ Len(fired') = 2 => fired'[1].name = "beforeUpdateSchedule"
           /\ \A i \in 1 .. Len(seen') :
                 /\ seen'[i].subscribed \cap OwnHandlers = {}
                 /\ seen'[i].session
           /\ IF viewName = "week"
              THEN _dragStart' = <<>> /\ _getScheduleDataFunc' = <<>>
              ELSE getScheduleData' = <<>> /\ _cache' = <<>> ]_vars

\* C22: in the month view the blocks of a schedule are hidden exactly while
\* WeekResize holds a session for that schedule, and when a dragEnd has
\* emitted WeekResizeDragend every block is visible and the guide's
\* elements and guide references are null
C22_BlocksHiddenDuringSession ==
    /\ \A id \in DOMAIN display :
          display[id] = "none" <=> (_cache # <<>> /\ _cache[1].schedule = id)
    /\ (gesture.type = "dragEnd" /\ Count("WeekResizeDragend") = 1)
          => /\ \A id \in DOMAIN display : display[id] # "none"
             /\ elements = <<>>
             /\ guide = <<>>

\* the largest number of milestones on a date of the render range; a date
\* without a collection has none
LargestCollection ==
    LET size(k) == IF milestone # <<>> /\ k \in DOMAIN milestone[1]
                   THEN milestone[1][k].length[1] ELSE 0
        sizes == { size(k) : k \in RangeKeys(options) } \cup {0}
    IN  CHOOSE n \in sizes : \A m \in sizes : m <= n

\* C23: the rendered view model has height = max(minHeight, lineHeight *
\* largest per-date collection size) + 4, a number not below minHeight + 4,
\* and its events map has exactly the dates of the render range as keys
C23_MilestoneHeight ==
    baseViewModel # <<>> =>
        LET vm == baseViewModel[1]
            lines == options.lineHeight * LargestCollection
            expected == (IF options.minHeight >= lines THEN options.minHeight ELSE lines) + 4
        IN  /\ vm.height = Finite(expected)
            /\ vm.height.kind = "finite"
            /\ vm.height.n >= options.minHeight + 4
            /\ DOMAIN vm.events = RangeKeys(options)

====
